---- MODULE Spec2Model ----
(***************************************************************************)
(* QR code generator with a centred logo (qr_creator_v01.py, qr_link.py).  *)
(*                                                                         *)
(* One generation request of main(): the validate / auto-tune loop around  *)
(* create_qr_with_logo, the logo-ratio clamping and the plate geometry.    *)
(*                                                                         *)
(* Ratios are Python floats.  A float is modelled as a record              *)
(*   [kind, h, below]                                                      *)
(* kind = "num": the double nearest to h/100 (h a whole number of          *)
(* hundredths), or, when below = TRUE, the double one ulp under it;        *)
(* kind = "inf": +infinity;  kind = "nan": not-a-number.                   *)
(* Pixel sizes and counts are integers.  Texts are sequences of            *)
(* one-character strings.                                                  *)
(***************************************************************************)
EXTENDS Integers, Sequences, FiniteSets, TLC

(***************************************************************************)
(* Bounds of the model                                                     *)
(***************************************************************************)
MaxVersion == 7          \* QR versions 1..MaxVersion (modules = 17 + 4v)
MaxRatioH == 25          \* requested ratios up to MaxRatioH hundredths
MaxLogoDim == 40         \* longest logo side in px
MaxPad == 600            \* largest padding in px
MaxTried == 6            \* attempts remembered in the history
MaxScaleDim == 8         \* longest logo side in px when the resize is checked alone
MaxText == 4             \* longest contact field, in characters
MaxScaleSide == 60       \* largest bounding side in px when the resize is checked alone

(***************************************************************************)
(* Python float semantics used by the code                                 *)
(***************************************************************************)
Num(x) == [kind |-> "num", h |-> x, below |-> FALSE]
NumBelow(x) == [kind |-> "num", h |-> x, below |-> TRUE]
PosInf == [kind |-> "inf", h |-> 0, below |-> FALSE]
NaN == [kind |-> "nan", h |-> 0, below |-> FALSE]

\* a < b on floats: false whenever a NaN is involved
FLt(a, b) ==
    IF a.kind = "nan" \/ b.kind = "nan" THEN FALSE
    ELSE IF a.kind = "inf" THEN FALSE
    ELSE IF b.kind = "inf" THEN TRUE
    ELSE \/ a.h < b.h
         \/ a.h = b.h /\ a.below /\ ~b.below

FGt(a, b) == FLt(b, a)

FLe(a, b) ==
    IF a.kind = "nan" \/ b.kind = "nan" THEN FALSE
    ELSE a = b \/ FLt(a, b)

\* builtin min(a, b) / max(a, b): the first argument unless the second beats it
PyMin(a, b) == IF FLt(b, a) THEN b ELSE a
PyMax(a, b) == IF FGt(b, a) THEN b ELSE a

\* base - penalty in double arithmetic, both whole hundredths: the result is
\* the double of the decimal difference except 0.12 - 0.02, which is
\* 0.09999999999999999 (one ulp under 0.10)
FSub(x, y) == IF x = 12 /\ y = 2 THEN NumBelow(10) ELSE Num(x - y)

\* round(r - 0.02, 2)
RoundSubStep(r) == IF r.kind = "num" THEN Num(r.h - 2) ELSE r

\* largest power of two <= n (n >= 1)
RECURSIVE Pow2Le(_, _)
Pow2Le(n, p) == IF 2 * p <= n THEN Pow2Le(n, 2 * p) ELSE p

\* int(side * r) for 0 < r: the double product, truncated
IntMul(side, r) ==
    IF ~r.below \/ (side * r.h) % 100 # 0 THEN (side * r.h) \div 100
    ELSE LET n == (side * r.h) \div 100
             p == Pow2Le(n, 1)
         IN  IF p < n /\ 3 * n < 4 * p THEN n ELSE n - 1

\* int(round(n / d)) for n >= 0, d > 0: round half to even
RoundDiv(n, d) ==
    LET q == n \div d
        r == n % d
    IN  IF 2 * r > d \/ (2 * r = d /\ q % 2 = 1) THEN q + 1 ELSE q

Max(a, b) == IF a >= b THEN a ELSE b
Min(a, b) == IF a <= b THEN a ELSE b

(***************************************************************************)
(* Texts                                                                   *)
(***************************************************************************)
Whitespace == {" ", "\t", "\n", "\r"}

LowerLetters ==
    <<"a", "b", "c", "d", "e", "f", "g", "h", "i", "j", "k", "l", "m",
      "n", "o", "p", "q", "r", "s", "t", "u", "v", "w", "x", "y", "z">>
UpperLetters ==
    <<"A", "B", "C", "D", "E", "F", "G", "H", "I", "J", "K", "L", "M",
      "N", "O", "P", "Q", "R", "S", "T", "U", "V", "W", "X", "Y", "Z">>

\* str.upper() on one character of the payloads (ASCII): a letter a..z is
\* raised, every other character is kept
UpperChar(c) ==
    IF \E i \in 1..26 : LowerLetters[i] = c
    THEN UpperLetters[CHOOSE i \in 1..26 : LowerLetters[i] = c]
    ELSE c

Upper(s) == [i \in 1..Len(s) |-> UpperChar(s[i])]

RECURSIVE LStrip(_)
LStrip(s) == IF s # <<>> /\ Head(s) \in Whitespace THEN LStrip(Tail(s)) ELSE s

RECURSIVE RStrip(_)
RStrip(s) ==
    IF s # <<>> /\ s[Len(s)] \in Whitespace
    THEN RStrip(SubSeq(s, 1, Len(s) - 1)) ELSE s

Strip(s) == RStrip(LStrip(s))

StartsWith(s, p) == Len(s) >= Len(p) /\ SubSeq(s, 1, Len(p)) = p

BEGIN_VCARD == <<"B", "E", "G", "I", "N", ":", "V", "C", "A", "R", "D">>
MECARD_PFX == <<"M", "E", "C", "A", "R", "D", ":">>

\* variant: the payload trimmed but not upper-cased
DatUpperNoFold(data) == Strip(data)

\* dat_upper = data.strip().upper()
DatUpper(data) == Upper(Strip(data))

IsVCard(dat_upper) == StartsWith(dat_upper, BEGIN_VCARD)
IsMeCard(dat_upper) == StartsWith(dat_upper, MECARD_PFX)

(***************************************************************************)
(* PayloadBuilder: qr_creator_v01._escape_vcard                            *)
(***************************************************************************)
\* s.replace(old, new): every occurrence of old, found from the left and not
\* overlapping, becomes new
RECURSIVE Replace(_, _, _)
Replace(s, old, new) ==
    IF s = <<>> THEN <<>>
    ELSE IF StartsWith(s, old)
         THEN new \o Replace(SubSeq(s, Len(old) + 1, Len(s)), old, new)
         ELSE <<Head(s)>> \o Replace(Tail(s), old, new)

\* variant: the backslashes escaped last instead of first
EscapeVCardBackslashLast(s) ==
    IF s = <<>> THEN <<>>
    ELSE Replace(Replace(Replace(Replace(Replace(s,
             <<"\r", "\n">>, <<"\\", "n">>),
             <<"\n">>, <<"\\", "n">>),
             <<";">>, <<"\\", ";">>),
             <<",">>, <<"\\", ",">>),
             <<"\\">>, <<"\\", "\\">>)

\* _escape_vcard: five replacements, the backslash first
EscapeVCard(s) ==
    IF s = <<>> THEN <<>>
    ELSE Replace(Replace(Replace(Replace(Replace(s,
             <<"\\">>, <<"\\", "\\">>),
             <<"\r", "\n">>, <<"\\", "n">>),
             <<"\n">>, <<"\\", "n">>),
             <<";">>, <<"\\", ";">>),
             <<",">>, <<"\\", ",">>)

(***************************************************************************)
(* SafeRatioPolicy: qr_creator_v01._max_safe_logo_ratio and the clamping   *)
(* at the head of create_qr_with_logo                                      *)
(***************************************************************************)
Levels == {"L", "M", "Q", "H"}

\* variant: the base caps of M and Q exchanged
BaseCapSwapped(ec_level) ==
    CASE ec_level = "L" -> 12
      [] ec_level = "M" -> 18
      [] ec_level = "Q" -> 15
      [] ec_level = "H" -> 22
      [] OTHER -> 18

\* base cap of an error-correction level, in hundredths
BaseCap(ec_level) ==
    CASE ec_level = "L" -> 12
      [] ec_level = "M" -> 15
      [] ec_level = "Q" -> 18
      [] ec_level = "H" -> 22
      [] OTHER -> 18

\* variant: the densest band starts one version late
PenaltyShifted(modules_count) ==
    IF modules_count > 45 THEN 3
    ELSE IF modules_count >= 33 THEN 2
    ELSE 0

\* density penalty of a module count, in hundredths
Penalty(modules_count) ==
    IF modules_count >= 45 THEN 3
    ELSE IF modules_count >= 33 THEN 2
    ELSE 0

MaxSafeLogoRatio(ec_level, modules_count) ==
    PyMax(Num(8), FSub(BaseCap(ec_level), Penalty(modules_count)))

\* safe_cap = min(safe_cap, 0.20)
SafeCap(ec_level, modules_count) ==
    PyMin(MaxSafeLogoRatio(ec_level, modules_count), Num(20))

\* pre-clamp for contact payloads
PreClamp(dat_upper, r) ==
    IF IsVCard(dat_upper) THEN (IF FGt(r, Num(16)) THEN Num(16) ELSE r)
    ELSE IF IsMeCard(dat_upper) THEN (IF FGt(r, Num(18)) THEN Num(18) ELSE r)
    ELSE r

BorderUsed(dat_upper, border_size) ==
    IF IsVCard(dat_upper) \/ IsMeCard(dat_upper)
    THEN Max(border_size, 4) ELSE border_size

\* variant: the clamp without the 0.08 floor
ClampRatioNoFloor(r, safe_cap) == PyMin(r, safe_cap)

\* logo_size_ratio = max(0.08, min(logo_size_ratio, safe_cap))
ClampRatio(r, safe_cap) == PyMax(Num(8), PyMin(r, safe_cap))

(***************************************************************************)
(* LogoCompositor: the geometry of create_qr_with_logo                     *)
(***************************************************************************)
\* side in px of the image the encoder renders
QrSide(modules_count, border, box_size) == (modules_count + 2 * border) * box_size

\* variant: the short side scaled by the aspect ratio instead of its inverse
ScaleLogoInverted(max_side, lw, lh) ==
    IF lw >= lh
    THEN <<max_side, RoundDiv(max_side * lw, lh)>>
    ELSE <<RoundDiv(max_side * lh, lw), max_side>>

\* <<new_w, new_h>> of the resized logo
ScaleLogo(max_side, lw, lh) ==
    IF lw >= lh
    THEN <<max_side, RoundDiv(max_side * lh, lw)>>
    ELSE <<RoundDiv(max_side * lw, lh), max_side>>

\* variant: the plate without the max(0, logo_pad_px) guard
PlateRectRawPad(qr_w, qr_h, cx, cy, new_w, new_h, logo_pad_px) ==
    <<Max(0, cx - logo_pad_px),
      Max(0, cy - logo_pad_px),
      Min(qr_w, cx + new_w + logo_pad_px),
      Min(qr_h, cy + new_h + logo_pad_px)>>

\* <<bg_x0, bg_y0, bg_x1, bg_y1>> of the background plate
PlateRect(qr_w, qr_h, cx, cy, new_w, new_h, logo_pad_px) ==
    <<Max(0, cx - Max(0, logo_pad_px)),
      Max(0, cy - Max(0, logo_pad_px)),
      Min(qr_w, cx + new_w + Max(0, logo_pad_px)),
      Min(qr_h, cy + new_h + Max(0, logo_pad_px))>>

\* radius handed to the drawing call by _rounded_rect
RoundedRadius(xy, radius) ==
    Max(0, Min(radius, Min(xy[3] - xy[1], xy[4] - xy[2]) \div 2))

NoImage ==
    [status |-> "none", requested |-> Num(0), safe_cap |-> Num(0),
     applied |-> Num(0), clamped |-> FALSE,
     border |-> 0, qr_w |-> 0, qr_h |-> 0,
     max_side |-> 0, new_w |-> 0, new_h |-> 0,
     cx |-> 0, cy |-> 0, bg |-> <<0, 0, 0, 0>>, r |-> 0]

\* a size <<w, h>> with an empty side, as handed to the resize call
EmptyResize(size) == size[1] < 1 \/ size[2] < 1

\* the plate rectangle: the box [x0, y0, x1, y1] handed to the drawing call,
\* both ends included
InPlate(image, x, y) ==
    /\ image.bg[1] <= x /\ x <= image.bg[3]
    /\ image.bg[2] <= y /\ y <= image.bg[4]

\* how far the column x (the row y) reaches into a corner of the box: the
\* distance to the centre of the nearer corner arc, 0 between the arcs
CornerDx(image, x) ==
    Max(0, Max(image.bg[1] + image.r - x, x - (image.bg[3] - image.r)))

CornerDy(image, y) ==
    Max(0, Max(image.bg[2] + image.r - y, y - (image.bg[4] - image.r)))

\* what the overlay leaves at (x, y) once composited (default opacity): the
\* plate inside the rounded rectangle of radius image.r, the modules where
\* a corner is cut off and outside the box; on the arc itself, within a
\* pixel of the radius, the drawing library decides
PlateShows(image, x, y) ==
    LET dx == CornerDx(image, x)
        dy == CornerDy(image, y)
        d2 == dx * dx + dy * dy
    IN  IF ~InPlate(image, x, y) THEN {"qr"}
        ELSE IF dx = 0 \/ dy = 0 THEN {"plate"}
        ELSE IF d2 > (image.r + 1) * (image.r + 1) THEN {"qr"}
        ELSE IF d2 <= (image.r - 1) * (image.r - 1) THEN {"plate"}
        ELSE {"qr", "plate"}

\* the pixels qr_image.paste(logo, (cx, cy), logo) may touch
InLogo(image, x, y) ==
    /\ image.cx <= x /\ x < image.cx + image.new_w
    /\ image.cy <= y /\ y < image.cy + image.new_h

\* variant: the logo pasted first, the plate composited over it
PixelPlateLast(image, x, y) ==
    IF InLogo(image, x, y) /\ "qr" \in PlateShows(image, x, y)
    THEN {"logo"} \cup PlateShows(image, x, y)
    ELSE PlateShows(image, x, y)

\* what the pixel (x, y) of the final image may show.  The plate is
\* composited onto the QR image first and the logo pasted second with its
\* own alpha as mask: inside the logo box an opaque pixel of the logo shows
\* the logo, a transparent one shows what the overlay left there.
Pixel(image, x, y) ==
    IF InLogo(image, x, y)
    THEN {"logo"} \cup PlateShows(image, x, y)
    ELSE PlateShows(image, x, y)

(***************************************************************************)
(* ValidationLoop: the helpers of the loop in main                         *)
(***************************************************************************)
\* what the decoder collaborator can answer for an image
DecodeResults == {"data", "empty", "raises"}

\* variant: a missing decoder counts as a failed decode
CanDecodeStrict(pyzbar_ok, res) == pyzbar_ok /\ res = "data"

\* _can_decode: True without the decoder, else whether a record with data came back
CanDecode(pyzbar_ok, res) == IF ~pyzbar_ok THEN TRUE ELSE res = "data"

\* variant: the loop stops one step above the floor
LoopBreaksEarly(decoded, auto_tune, r) == decoded \/ ~auto_tune \/ FLe(r, Num(14))

\* the break condition after a decode
LoopBreaks(decoded, auto_tune, r) == decoded \/ ~auto_tune \/ FLe(r, Num(12))

\* ratio = max(0.12, round(ratio - 0.02, 2))
NextRatio(r) == PyMax(Num(12), RoundSubStep(r))

(***************************************************************************)
(* Inputs                                                                  *)
(***************************************************************************)
DefaultBox == 12
DefaultBorder == 4
DefaultPad == 8
DefaultRadius == 12
HugeRatioH == 104        \* a requested ratio above 1, in hundredths
LowRatioH == 7

P_Text == <<"h", "t", "t", "p", ":", "x">>
P_VCard == <<"B", "E", "G", "I", "N", ":", "V", "C", "A", "R", "D", "\r", "\n">>
P_VCardLower == <<" ", "\n", "b", "e", "g", "i", "n", ":", "v", "C", "a", "r", "d", "\n">>
P_MeCard == <<"\t", "m", "e", "C", "A", "R", "D", ":", "N", ":", "x", ";", ";">>
P_Inner == <<"x", " ", "B", "E", "G", "I", "N", ":", "V", "C", "A", "R", "D">>
Payloads == {P_Text, P_VCard, P_VCardLower, P_MeCard, P_Inner}

\* output names: none, the default of both programs, the one of the example
NoName == <<>>
N_WithLogo ==
    <<"q", "r", "_", "w", "i", "t", "h", "_", "l", "o", "g", "o", ".", "p", "n", "g">>
N_Example ==
    <<"e", "x", "a", "m", "p", "l", "e", "_", "q", "r", ".", "p", "n", "g">>
OutNames == {NoName, N_WithLogo, N_Example}

RatioInputs ==
    {Num(x) : x \in (LowRatioH..MaxRatioH) \cup {-5, HugeRatioH}} \cup {PosInf, NaN}

\* module counts of the versions the encoder may pick
ModuleCounts == {17 + 4 * v : v \in {w \in 1..MaxVersion : w % 3 # 2}}

\* logo sizes <<lw, lh>> in px
Logos ==
    {<<3, 2>>, <<2, 3>>, <<1, 1>>, <<MaxLogoDim, 1>>, <<1, MaxLogoDim>>}
MainLogos == {<<3, 2>>, <<1, MaxLogoDim>>}

Pads == {-3, DefaultPad, MaxPad}
Boxes == {1, DefaultBox}
Borders == {0, DefaultBorder}

ArgsType ==
    [data : Payloads, ratio : RatioInputs, ec : Levels, box : Boxes,
     border : Borders, pad : Pads, validate : BOOLEAN, auto_tune : BOOLEAN,
     out : OutNames, open : BOOLEAN]
EnvType ==
    [modules_count : ModuleCounts, logo : Logos, pyzbar_ok : BOOLEAN]

(***************************************************************************)
(* State                                                                   *)
(***************************************************************************)
VARIABLES
    args,     \* the request: payload and options
    env,      \* what the collaborators provide: version, logo file, decoder
    pc,       \* position in main / in the call
    ratio,    \* main's loop variable
    ok,       \* main's loop variable
    tried,    \* history: <<ratio passed, ratio applied>> per compose attempt
    img,      \* what the last create_qr_with_logo call computed
    link,     \* what qr_link.create_qr_with_logo computed
    outfile,  \* the file named args.out: what the last save wrote into it
    viewer,   \* the image viewer: how often the open block ran and launched
    fit,      \* a logo resize on its own: bounding side and the two results
    vcard     \* one contact field: its text and the text after escaping

vars == <<args, env, pc, ratio, ok, tried, img, link, outfile, viewer, fit, vcard>>

NoFile == [written |-> 0, image |-> NoImage]
NoViewer == [block |-> 0, launched |-> 0, known |-> FALSE, at |-> "none"]
NoFit == [side |-> 0, v01 |-> <<>>, link |-> <<>>]
NoField == [text |-> <<>>, escaped |-> <<>>, done |-> FALSE]

NoLink == [status |-> "none", requested |-> Num(0), safe_cap |-> Num(0),
           applied |-> Num(0), qr_w |-> 0, qr_h |-> 0, logo_size |-> 0,
           new_w |-> 0, new_h |-> 0, logo_x |-> 0, logo_y |-> 0, pad |-> 0,
           fallback |-> NoName]

\* the history keeps the first MaxTried attempts
Remember(h, e) == IF Len(h) < MaxTried THEN Append(h, e) ELSE h

\* variant: an output file that exists already is left as it is
SaveOutputKeepFirst(file, image) ==
    IF file.written > 0 THEN file ELSE [written |-> 1, image |-> image]

\* final_img.save(out, "PNG"): the file is replaced by the new image
SaveOutput(file, image) ==
    [written |-> Min(file.written + 1, MaxTried), image |-> image]

\* the block that opens the saved file: os.system(...) runs on the platforms
\* the code knows (darwin, win, linux), nothing happens elsewhere
OpenViewer(v, known, where) ==
    [block |-> Min(v.block + 1, MaxTried),
     launched |-> IF known THEN Min(v.launched + 1, MaxTried) ELSE v.launched,
     known |-> known, at |-> where]

\* variant: open_after handed over as requested, validation or not
OpenAfterAlways(open, validate) == open

\* open_after = args.open and not args.validate
OpenAfter(open, validate) == open /\ ~validate

\* create_qr_with_logo: its local variables in the order the code assigns
\* them.  What the call computed is left in img; status is "raised" when the
\* resize call is given an empty size and the imaging library rejects it
\* (nothing is drawn or saved then), "saved" when the call returns the
\* image.  The file is written when an output name is given, and opened
\* after that when open_after is set.
CreateQrWithLogo(data, out, logo_size_ratio, box_size, border_size, ec, pad, radius, open_after, modules_count, logo) ==
    \E dat_upper \in {DatUpper(data)} :
    \E pre \in {PreClamp(dat_upper, logo_size_ratio)} :
    \E border \in {BorderUsed(dat_upper, border_size)} :
    \E safe_cap \in {SafeCap(ec, modules_count)} :
    \E applied \in {ClampRatio(pre, safe_cap)} :
    \E qr_w \in {QrSide(modules_count, border, box_size)} :
    \E qr_h \in {QrSide(modules_count, border, box_size)} :
    \E max_side \in {IntMul(Min(qr_w, qr_h), applied)} :
    \E new \in {ScaleLogo(max_side, logo[1], logo[2])} :
    \E rejects \in BOOLEAN :
    \E cx \in {(qr_w - new[1]) \div 2} :
    \E cy \in {(qr_h - new[2]) \div 2} :
    \E bg \in {PlateRect(qr_w, qr_h, cx, cy, new[1], new[2], pad)} :
    \E final_img \in {[status |-> IF EmptyResize(new) /\ rejects
                                  THEN "raised" ELSE "saved",
                       requested |-> logo_size_ratio,
                       safe_cap |-> safe_cap, applied |-> applied,
                       clamped |-> FGt(pre, safe_cap),
                       border |-> border, qr_w |-> qr_w, qr_h |-> qr_h,
                       max_side |-> max_side, new_w |-> new[1], new_h |-> new[2],
                       cx |-> cx, cy |-> cy, bg |-> bg,
                       r |-> RoundedRadius(bg, radius)]} :
    \E known \in BOOLEAN :
        /\ img' = final_img
        /\ outfile' = IF final_img.status = "saved" /\ out # NoName
                      THEN SaveOutput(outfile, final_img) ELSE outfile
        /\ viewer' = IF final_img.status = "saved" /\ out # NoName /\ open_after
                     THEN OpenViewer(viewer, known, "create") ELSE viewer

(***************************************************************************)
(* main of qr_creator_v01.py: one request with the default geometry        *)
(***************************************************************************)
Init ==
    /\ args \in [data : Payloads, ratio : RatioInputs, ec : Levels,
                 box : Boxes, border : {DefaultBorder},
                 pad : {DefaultPad}, validate : BOOLEAN, auto_tune : BOOLEAN,
                 out : {NoName, N_WithLogo}, open : BOOLEAN]
    /\ env \in [modules_count : ModuleCounts, logo : MainLogos,
                pyzbar_ok : BOOLEAN]
    /\ pc = "Compose"
    /\ ratio = args.ratio
    /\ ok = FALSE
    /\ tried = <<>>
    /\ img = NoImage
    /\ link = NoLink
    /\ outfile = NoFile
    /\ viewer = NoViewer
    /\ fit = NoFit
    /\ vcard = NoField

\* one pass through create_qr_with_logo and the branch on args.validate
Compose ==
    /\ pc = "Compose"
    /\ CreateQrWithLogo(args.data, args.out, ratio, args.box, args.border,
                        args.ec, args.pad, DefaultRadius,
                        OpenAfter(args.open, args.validate),
                        env.modules_count, env.logo)
    /\ tried' = Remember(tried, <<ratio, img'.applied>>)
    /\ IF img'.status = "raised"
       THEN pc' = "Crashed" /\ ok' = ok
       ELSE IF args.validate
            THEN pc' = "Decode" /\ ok' = ok
            ELSE pc' = "Accept" /\ ok' = TRUE
    /\ UNCHANGED <<args, env, ratio, link, fit, vcard>>

\* ok = _can_decode(last_img), then break or retry with a smaller ratio
Decode ==
    /\ pc = "Decode"
    /\ \E res \in DecodeResults :
         LET decoded == CanDecode(env.pyzbar_ok, res)
         IN  /\ ok' = decoded
             /\ IF LoopBreaks(decoded, args.auto_tune, ratio)
                THEN /\ pc' = IF decoded THEN "Accept" ELSE "GiveUp"
                     /\ ratio' = ratio
                ELSE /\ pc' = "Compose"
                     /\ ratio' = NextRatio(ratio)
    /\ UNCHANGED <<args, env, tried, img, link, outfile, viewer, fit, vcard>>

\* after the loop: the validation report, and the viewer when the image was
\* accepted and --open was given
Report ==
    /\ pc \in {"Accept", "GiveUp"}
    /\ pc' = "Done"
    /\ \E known \in BOOLEAN :
         viewer' = IF args.validate /\ ok /\ args.open
                   THEN OpenViewer(viewer, known, "report") ELSE viewer
    /\ UNCHANGED <<args, env, ratio, ok, tried, img, link, outfile, fit, vcard>>

Next == Compose \/ Decode \/ Report

Spec == Init /\ [][Next]_vars

\* The loop on its own: one payload, level, version and logo (none of them
\* is read by the loop), every starting ratio and every flag setting.  The
\* loop body is sequential code: a step that can be taken is taken.
LoopInit ==
    /\ Init
    /\ args.data = P_Text /\ args.ec = "H" /\ args.box = DefaultBox
    /\ env.modules_count = 21 /\ env.logo = <<3, 2>>

FairSpec == LoopInit /\ [][Next]_vars /\ WF_vars(Next)

(***************************************************************************)
(* create_qr_with_logo of qr_creator_v01.py called on its own              *)
(***************************************************************************)
CreateInit ==
    /\ args \in [data : Payloads, ratio : RatioInputs, ec : Levels,
                 box : Boxes, border : Borders, pad : Pads,
                 validate : {FALSE}, auto_tune : {FALSE},
                 out : {N_WithLogo}, open : {FALSE}]
    /\ env \in [modules_count : ModuleCounts, logo : Logos,
                pyzbar_ok : {FALSE}]
    /\ pc = "Call"
    /\ ratio = args.ratio
    /\ ok = FALSE
    /\ tried = <<>>
    /\ img = NoImage
    /\ link = NoLink
    /\ outfile = NoFile
    /\ viewer = NoViewer
    /\ fit = NoFit
    /\ vcard = NoField

Create ==
    /\ pc = "Call"
    /\ CreateQrWithLogo(args.data, args.out, args.ratio, args.box, args.border,
                        args.ec, args.pad, DefaultRadius, args.open,
                        env.modules_count, env.logo)
    /\ pc' = IF img'.status = "raised" THEN "Raised" ELSE "Returned"
    /\ UNCHANGED <<args, env, ratio, ok, tried, link, fit, vcard>>

CreateNext == Create

CreateSpec == CreateInit /\ [][CreateNext]_vars

(***************************************************************************)
(* create_qr_with_logo of qr_link.py (level H, box size 10)                *)
(***************************************************************************)
LinkBox == 10

\* safe_cap = 0.22, lowered by the density penalty
LinkSafeCap(modules_count) == FSub(22, Penalty(modules_count))

\* clamp to the cap, then logo_size_ratio = max(0.12, logo_size_ratio)
LinkClampRatio(r, safe_cap) ==
    PyMax(Num(12), IF FGt(r, safe_cap) THEN safe_cap ELSE r)

\* <<logo_size, lw, lh>> for which the double logo_size / (lw / lh) is one ulp
\* under the whole number that logo_size * lh / lw is, so that int() gives
\* one less: all such inputs with lw, lh <= 9 and logo_size <= 61 (there is
\* none among the sizes of Logos, nor in the branch that multiplies)
QuotientFallsUnder ==
    {<<9, 9, 7>>, <<18, 9, 7>>, <<36, 9, 7>>, <<35, 7, 3>>, <<35, 7, 6>>}

\* int(logo_size / logo_aspect) with logo_aspect = lw / lh > 1
LinkTruncDiv(logo_size, lw, lh) ==
    IF <<logo_size, lw, lh>> \in QuotientFallsUnder
    THEN (logo_size * lh) \div lw - 1
    ELSE (logo_size * lh) \div lw

\* <<new_width, new_height>>: truncation
LinkScaleLogo(logo_size, lw, lh) ==
    IF lw > lh
    THEN <<logo_size, LinkTruncDiv(logo_size, lw, lh)>>
    ELSE <<(logo_size * lw) \div lh, logo_size>>

WITH_LOGO == <<"_", "w", "i", "t", "h", "_", "l", "o", "g", "o">>
SIMPLE == <<"_", "s", "i", "m", "p", "l", "e">>

\* what create_simple_qr_fallback saves: the code without a logo
PlainCode == [status |-> "plain"]

\* What the call computed is left in link.  The composed image is saved
\* under the output name.  An exception inside the call (the resize of an
\* empty size, the save under an empty name) is caught: the fallback then
\* saves a plain code under the output name with "_with_logo" replaced by
\* "_simple" (the same file when the name has no "_with_logo"; no file when
\* the name is empty) and the function returns False.
LinkCreateQrWithLogo(data, out, logo_size_ratio, border_size, modules_count, logo) ==
    \E safe_cap \in {LinkSafeCap(modules_count)} :
    \E applied \in {LinkClampRatio(logo_size_ratio, safe_cap)} :
    \E qr_width \in {QrSide(modules_count, border_size, LinkBox)} :
    \E qr_height \in {QrSide(modules_count, border_size, LinkBox)} :
    \E logo_size \in {IntMul(Min(qr_width, qr_height), applied)} :
    \E new \in {LinkScaleLogo(logo_size, logo[1], logo[2])} :
    \E rejects \in BOOLEAN :
    \E failed \in {(EmptyResize(new) /\ rejects) \/ out = NoName} :
    \E simple \in {Replace(out, WITH_LOGO, SIMPLE)} :
    \E final_image \in {[status |-> IF failed THEN "failed" ELSE "saved",
                         requested |-> logo_size_ratio,
                         safe_cap |-> safe_cap, applied |-> applied,
                         qr_w |-> qr_width, qr_h |-> qr_height,
                         logo_size |-> logo_size,
                         new_w |-> new[1], new_h |-> new[2],
                         logo_x |-> (qr_width - new[1]) \div 2,
                         logo_y |-> (qr_height - new[2]) \div 2,
                         pad |-> Max(2, IntMul(Min(qr_width, qr_height), Num(2))),
                         fallback |-> IF failed THEN simple ELSE NoName]} :
        /\ link' = final_image
        /\ outfile' = IF ~failed THEN SaveOutput(outfile, final_image)
                      ELSE IF simple = out /\ simple # NoName
                           THEN SaveOutput(outfile, PlainCode)
                      ELSE outfile

LinkInit ==
    /\ args \in [data : Payloads, ratio : RatioInputs, ec : {"H"},
                 box : {LinkBox}, border : Borders, pad : {0},
                 validate : {FALSE}, auto_tune : {FALSE},
                 out : OutNames, open : {FALSE}]
    /\ env \in [modules_count : ModuleCounts, logo : Logos,
                pyzbar_ok : {FALSE}]
    /\ pc = "LinkCall"
    /\ ratio = args.ratio
    /\ ok = FALSE
    /\ tried = <<>>
    /\ img = NoImage
    /\ link = NoLink
    /\ outfile = NoFile
    /\ viewer = NoViewer
    /\ fit = NoFit
    /\ vcard = NoField

\* the call and its boolean result
LinkCreate ==
    /\ pc = "LinkCall"
    /\ LinkCreateQrWithLogo(args.data, args.out, args.ratio, args.border,
                            env.modules_count, env.logo)
    /\ pc' = IF link'.status = "failed" THEN "LinkFalse" ELSE "LinkTrue"
    /\ UNCHANGED <<args, env, ratio, ok, tried, img, viewer, fit, vcard>>

\* what main makes of the text typed for the ratio: nothing typed or not a
\* number gives 0.3, a number r gives max(0.1, min(0.4, r))
LinkTyped == {"number", "nothing", "invalid"}

LinkMainRatio(typed, r) ==
    IF typed = "number" THEN PyMax(Num(10), PyMin(Num(40), r)) ELSE Num(30)

\* output_name = input(...).strip(), the default when nothing is typed
LinkMainOutput(name) ==
    IF Strip(name) = NoName THEN N_WithLogo ELSE Strip(name)

\* main of qr_link.py (the libraries it checks for are installed): the
\* answers typed, the call with the default border, and after a True result
\* the block that opens the file
LinkMain ==
    /\ pc = "LinkCall"
    /\ \E typed \in LinkTyped :
         LinkCreateQrWithLogo(Strip(args.data), LinkMainOutput(args.out),
                              LinkMainRatio(typed, args.ratio), DefaultBorder,
                              env.modules_count, env.logo)
    /\ \E known \in BOOLEAN :
         viewer' = IF link'.status = "saved"
                   THEN OpenViewer(viewer, known, "link_main") ELSE viewer
    /\ pc' = "LinkMainDone"
    /\ UNCHANGED <<args, env, ratio, ok, tried, img, fit, vcard>>

LinkNext == LinkCreate \/ LinkMain

LinkSpec == LinkInit /\ [][LinkNext]_vars

(***************************************************************************)
(* The resize of the logo on its own, in both programs                     *)
(***************************************************************************)
ScaleLogos == (1..MaxScaleDim) \X (1..MaxScaleDim)

ScaleInit ==
    /\ args \in [data : {P_Text}, ratio : {Num(18)}, ec : {"H"},
                 box : {DefaultBox}, border : {DefaultBorder},
                 pad : {DefaultPad}, validate : {FALSE}, auto_tune : {FALSE},
                 out : {N_WithLogo}, open : {FALSE}]
    /\ env \in [modules_count : {21}, logo : ScaleLogos, pyzbar_ok : {FALSE}]
    /\ pc = "Resize"
    /\ ratio = args.ratio
    /\ ok = FALSE
    /\ tried = <<>>
    /\ img = NoImage
    /\ link = NoLink
    /\ outfile = NoFile
    /\ viewer = NoViewer
    /\ fit \in [side : 0..MaxScaleSide, v01 : {<<>>}, link : {<<>>}]
    /\ vcard = NoField

\* qr_creator_v01.py: new_w, new_h from max_side and the logo size
Scale ==
    /\ pc = "Resize"
    /\ fit.v01 = <<>>
    /\ fit' = [fit EXCEPT !.v01 = ScaleLogo(fit.side, env.logo[1], env.logo[2])]
    /\ UNCHANGED <<args, env, pc, ratio, ok, tried, img, link, outfile, viewer, vcard>>

\* qr_link.py: new_width, new_height from logo_size and the logo size
LinkScale ==
    /\ pc = "Resize"
    /\ fit.link = <<>>
    /\ fit' = [fit EXCEPT !.link = LinkScaleLogo(fit.side, env.logo[1], env.logo[2])]
    /\ UNCHANGED <<args, env, pc, ratio, ok, tried, img, link, outfile, viewer, vcard>>

ScaleNext == Scale \/ LinkScale

ScaleSpec == ScaleInit /\ [][ScaleNext]_vars

(***************************************************************************)
(* _escape_vcard on one field of a contact                                 *)
(***************************************************************************)
FieldChars == {";", ",", "\\", "\n", "\r", "n", "a"}

FieldTexts == UNION {[1..k -> FieldChars] : k \in 0..MaxText}

EscapeInit ==
    /\ args \in [data : {P_VCard}, ratio : {Num(18)}, ec : {"H"},
                 box : {DefaultBox}, border : {DefaultBorder},
                 pad : {DefaultPad}, validate : {FALSE}, auto_tune : {FALSE},
                 out : {N_WithLogo}, open : {FALSE}]
    /\ env \in [modules_count : {21}, logo : {<<1, 1>>}, pyzbar_ok : {FALSE}]
    /\ pc = "Escape"
    /\ ratio = args.ratio
    /\ ok = FALSE
    /\ tried = <<>>
    /\ img = NoImage
    /\ link = NoLink
    /\ outfile = NoFile
    /\ viewer = NoViewer
    /\ fit = NoFit
    /\ vcard \in [text : FieldTexts, escaped : {<<>>}, done : {FALSE}]

Escape ==
    /\ pc = "Escape"
    /\ ~vcard.done
    /\ vcard' = [vcard EXCEPT !.escaped = EscapeVCard(vcard.text), !.done = TRUE]
    /\ UNCHANGED <<args, env, pc, ratio, ok, tried, img, link, outfile, viewer, fit>>

EscapeNext == Escape

EscapeSpec == EscapeInit /\ [][EscapeNext]_vars

(***************************************************************************)
(* Properties                                                              *)
(***************************************************************************)
Composed == img.status # "none"
LoopEnded == pc \in {"Accept", "GiveUp"}
FreeText == args.data \in {P_Text, P_Inner}

\* the ratios handed to create_qr_with_logo so far, oldest first
Passed == [i \in 1..Len(tried) |-> tried[i][1]]

\* C1: whatever ratio is requested (negative, above 1, infinite or NaN
\* included), for every level, module count and payload, the ratio applied by
\* create_qr_with_logo is a number, is at least 0.08, is not negative and is
\* at most the cap of the level and module count.
C1_AppliedWithinBounds ==
    Composed =>
        /\ img.applied.kind = "num"
        /\ FLe(Num(8), img.applied)
        /\ ~FLt(img.applied, Num(0))
        /\ FLe(img.applied, SafeCap(args.ec, env.modules_count))

C1_Witness ==
    /\ img.status = "saved"
    /\ img.requested = Num(-5)
    /\ img.applied = Num(8)

\* C2: with validation and auto-tune on and every decode failing, a retry
\* from a ratio r > 0.12 passes max(0.12, r - 0.02), a smaller number, to the
\* next compose; a failed decode at 0.12 ends in GiveUp; and from 0.18 the
\* ratios passed are exactly 0.18, 0.16, 0.14, 0.12.
C2_RetryStep ==
    (pc = "Decode" /\ args.auto_tune /\ ~ok') =>
        /\ FGt(ratio, Num(12)) =>
             /\ pc' = "Compose"
             /\ ratio.kind = "num"
             /\ ratio' = Num(Max(12, ratio.h - 2))
             /\ FLt(ratio', ratio)
        /\ ratio = Num(12) => pc' = "GiveUp" /\ ratio' = ratio

C2_From18 ==
    (args.validate /\ args.auto_tune /\ args.ratio = Num(18) /\ pc = "GiveUp")
        => Passed = <<Num(18), Num(16), Num(14), Num(12)>>

C2_StepsDownToFloor == [][C2_RetryStep]_vars /\ []C2_From18

\* C2 for starting ratios that are finite numbers: the part of C2 the code
\* does satisfy
C2_FiniteStepsDown ==
    [][args.ratio.kind = "num" => C2_RetryStep]_vars /\ []C2_From18

\* C3: the loop always ends: every request reaches Accept or GiveUp (or the
\* compose step raises) after finitely many compose attempts.
C3_LoopTerminates == <>(LoopEnded \/ pc = "Crashed")

\* C3 for starting ratios other than +infinity
C3_FiniteTerminates == (args.ratio.kind # "inf") => <>(LoopEnded \/ pc = "Crashed")

\* C4: with validation on, GiveUp is reached exactly from a failed decode with
\* auto-tune off or the ratio at or below 0.12, Accept exactly from a
\* successful decode; the loop never gives up with auto-tune on and the ratio
\* above 0.12; with auto-tune off there is exactly one compose attempt.
C4_AtEnd ==
    args.validate =>
        /\ pc = "GiveUp" => ~ok /\ (~args.auto_tune \/ FLe(ratio, Num(12)))
        /\ pc = "Accept" => ok
        /\ ~args.auto_tune =>
             /\ Len(tried) <= 1
             /\ LoopEnded => Len(tried) = 1

C4_DecodeStep ==
    (args.validate /\ pc = "Decode") =>
        /\ ok' => pc' = "Accept"
        /\ (~ok' /\ (~args.auto_tune \/ FLe(ratio, Num(12)))) => pc' = "GiveUp"
        /\ (~ok' /\ args.auto_tune /\ ~FLe(ratio, Num(12))) => pc' = "Compose"

C4_GiveUpExactly == []C4_AtEnd /\ [][C4_DecodeStep]_vars

C4_Witness ==
    /\ pc = "GiveUp"
    /\ args.auto_tune
    /\ ratio = Num(12)
    /\ Passed = <<Num(18), Num(16), Num(14), Num(12)>>

\* C5: without the decoder a validated request makes one compose attempt and
\* is accepted: it never retries and never ends in GiveUp, whatever auto-tune
\* and the ratio are.
C5_NoDecoderAccepts ==
    (args.validate /\ ~env.pyzbar_ok) =>
        /\ Len(tried) <= 1
        /\ pc # "GiveUp"
        /\ pc = "Compose" => tried = <<>>
        /\ pc = "Accept" => ok /\ Len(tried) = 1

C5_Witness ==
    /\ pc = "Accept"
    /\ args.validate /\ args.auto_tune /\ ~env.pyzbar_ok
    /\ FGt(ratio, Num(12))
    /\ Len(tried) = 1

\* C6: in both create_qr_with_logo implementations the cap and the applied
\* ratio never exceed the global ceiling 0.20.
C6_GlobalCeiling ==
    /\ Composed =>
         FLe(img.safe_cap, Num(20)) /\ FLe(img.applied, Num(20))
    /\ link.status # "none" =>
         FLe(link.safe_cap, Num(20)) /\ FLe(link.applied, Num(20))

\* the table and the formula as C7 states them
C7_Base(l) ==
    CASE l = "L" -> 12 [] l = "M" -> 15 [] l = "Q" -> 18 [] l = "H" -> 22

C7_Pen(n) ==
    IF n >= 45 THEN 3 ELSE IF 33 <= n /\ n < 45 THEN 2 ELSE 0

C7_Cap(l, n) == PyMin(Num(20), PyMax(Num(8), FSub(C7_Base(l), C7_Pen(n))))

C7_Clamp(r, cap) ==
    IF FLt(r, Num(8)) THEN Num(8) ELSE IF FGt(r, cap) THEN cap ELSE r

\* C7: the cap is min(0.20, max(0.08, base(level) - penalty(count))) in
\* double arithmetic, and for a free-text payload and a requested ratio that
\* is not NaN the applied ratio is clamp(requested, 0.08, cap); (H, 21, 0.25)
\* gives 0.20 and (L, 50, 0.15) gives 0.09.
C7_CapFormula ==
    /\ Composed =>
         /\ img.safe_cap = C7_Cap(args.ec, env.modules_count)
         /\ (FreeText /\ img.requested.kind # "nan") =>
              img.applied = C7_Clamp(img.requested, C7_Cap(args.ec, env.modules_count))
    /\ ClampRatio(PreClamp(DatUpper(P_Text), Num(25)), SafeCap("H", 21)) = Num(20)
    /\ ClampRatio(PreClamp(DatUpper(P_Text), Num(15)), SafeCap("L", 50)) = Num(9)

C7_Witness ==
    /\ img.status = "saved"
    /\ args.data = P_Text /\ args.ec = "H" /\ env.modules_count = 21
    /\ img.requested = Num(25)
    /\ img.applied = Num(20)

\* C8: a payload that starts with BEGIN:VCARD after trimming, in any letter
\* case, gets an applied ratio of at most 0.16; one that starts with MECARD:
\* at most 0.18.
C8_ContactCaps ==
    Composed =>
        /\ args.data \in {P_VCard, P_VCardLower} => FLe(img.applied, Num(16))
        /\ args.data = P_MeCard => FLe(img.applied, Num(18))

C8_Witness ==
    /\ img.status = "saved"
    /\ args.data = P_VCardLower /\ args.ec = "H"
    /\ img.requested = Num(20)
    /\ img.applied = Num(16)

\* C9: the plate rectangle lies inside the QR image and has no negative
\* width or height: 0 <= x0 <= x1 <= qrWidth and 0 <= y0 <= y1 <= qrHeight.
C9_PlateInside ==
    Composed =>
        /\ 0 <= img.bg[1] /\ img.bg[1] <= img.bg[3] /\ img.bg[3] <= img.qr_w
        /\ 0 <= img.bg[2] /\ img.bg[2] <= img.bg[4] /\ img.bg[4] <= img.qr_h

C9_Witness ==
    /\ img.status = "saved"
    /\ args.pad = MaxPad
    /\ img.new_w >= 1 /\ img.new_h >= 1
    /\ img.bg = <<0, 0, img.qr_w, img.qr_h>>

\* C10: the scaled logo's larger side is int(min(qrWidth, qrHeight) x
\* appliedRatio) and both sides are at least 1 px, or else the call fails
\* with a layout error of its own.
C10_ScaledAtLeastOnePx ==
    Composed =>
        /\ Max(img.new_w, img.new_h) = IntMul(Min(img.qr_w, img.qr_h), img.applied)
        /\ \/ img.new_w >= 1 /\ img.new_h >= 1
           \/ img.status = "layout_error"

\* the orders C11 names: L < M < Q < H, and the bands of module counts from
\* the sparsest (count < 33) to the densest (count >= 45)
C11_LevelRank(l) ==
    CASE l = "L" -> 1 [] l = "M" -> 2 [] l = "Q" -> 3 [] l = "H" -> 4

C11_Band(n) == IF n < 33 THEN 1 ELSE IF n < 45 THEN 2 ELSE 3

C11_NoLooser(l1, n1, l2, n2) ==
    /\ C11_LevelRank(l1) <= C11_LevelRank(l2)
    /\ C11_Band(n1) >= C11_Band(n2)

\* _max_safe_logo_ratio on its own, over every pair of inputs
C11_BeforeCeiling ==
    \A l1 \in Levels : \A l2 \in Levels :
    \A n1 \in ModuleCounts : \A n2 \in ModuleCounts :
       C11_NoLooser(l1, n1, l2, n2) =>
          FLe(MaxSafeLogoRatio(l1, n1), MaxSafeLogoRatio(l2, n2))

\* C11: the cap is monotone in both arguments: an input whose level is no
\* higher (L < M < Q < H) and whose module-count band is no sparser than
\* another's has a cap less than or equal to the other's, before and after
\* the 0.20 ceiling.
C11_CapMonotone ==
    /\ Composed =>
         \A l2 \in Levels : \A n2 \in ModuleCounts :
            /\ C11_NoLooser(args.ec, env.modules_count, l2, n2)
                 => FLe(img.safe_cap, SafeCap(l2, n2))
            /\ C11_NoLooser(l2, n2, args.ec, env.modules_count)
                 => FLe(SafeCap(l2, n2), img.safe_cap)
    /\ C11_BeforeCeiling

C11_Witness ==
    /\ img.status = "saved"
    /\ args.ec = "L" /\ env.modules_count = 33
    /\ img.safe_cap = NumBelow(10)
    /\ FLt(img.safe_cap, SafeCap("L", 29))
    /\ FLt(SafeCap("L", 45), img.safe_cap)
    /\ FLt(img.safe_cap, SafeCap("M", 33))

\* |d - side * lmin / lmax| <= 1 for the scaled sizes <<w, h>> of a logo
\* lw x lh: its longer side is the bounding side and its shorter side d is
\* within 1 px of the exact value
C12_Within1(size, side, lw, lh) ==
    LET lmax == Max(lw, lh)
        lmin == Min(lw, lh)
        long == IF lw >= lh THEN size[1] ELSE size[2]
        d == IF lw >= lh THEN size[2] ELSE size[1]
    IN  /\ long = side
        /\ d * lmax - side * lmin <= lmax
        /\ side * lmin - d * lmax <= lmax

\* C12: for every logo size and bounding side the scaled logo keeps the
\* aspect ratio within 1 px, in both programs: the shorter scaled side
\* differs from side * min(lw, lh) / max(lw, lh) by at most 1 px, with
\* rounding (qr_creator_v01.py) and with truncation (qr_link.py).
C12_AspectWithin1Px ==
    /\ fit.v01 # <<>> => C12_Within1(fit.v01, fit.side, env.logo[1], env.logo[2])
    /\ fit.link # <<>> => C12_Within1(fit.link, fit.side, env.logo[1], env.logo[2])

\* both results are in: rounding gives 15 (exact), truncation of the double
\* quotient gives 14, one whole px under the exact 35 * 3 / 7 = 15
C12_Witness ==
    /\ fit.side = 35 /\ env.logo = <<7, 3>>
    /\ fit.v01 = <<35, 15>>
    /\ fit.link = <<35, 14>>

\* C13: every compose attempt that returns writes the output file and
\* nothing removes or replaces it afterwards, so when the loop has ended
\* (Accept or GiveUp) the output file holds the image of the final compose
\* attempt, after a failed validation as well.
C13_FileIsFinalAttempt ==
    (args.out # NoName /\ (LoopEnded \/ pc = "Done")) =>
        /\ outfile.written = Len(tried)
        /\ outfile.written >= 1
        /\ outfile.image = img
        /\ outfile.image.requested = ratio

C13_Witness ==
    /\ pc = "Done" /\ ~ok
    /\ args.out = N_WithLogo /\ args.validate /\ args.auto_tune
    /\ Len(tried) = 3
    /\ outfile.written = 3
    /\ outfile.image.requested = Num(12)
    /\ outfile.image.applied = Num(12)

\* the inverse unescaping C14 names, read from the left: \\ to backslash,
\* \n to newline, \; to ';' and \, to ','
RECURSIVE C14_Unescape(_)
C14_Unescape(t) ==
    IF t = <<>> THEN <<>>
    ELSE IF Head(t) = "\\" /\ Len(t) >= 2 /\ t[2] \in {"\\", "n", ";", ","}
         THEN <<IF t[2] = "n" THEN "\n" ELSE t[2]>>
                  \o C14_Unescape(SubSeq(t, 3, Len(t)))
         ELSE <<Head(t)>> \o C14_Unescape(Tail(t))

\* the field text with every CR LF read as one newline
C14_FoldCRLF(s) == Replace(s, <<"\r", "\n">>, <<"\n">>)

\* C14 as stated: escaping and then unescaping recovers the original text
\* exactly, for every text over ';', ',', backslash, LF and CR LF.
C14_RoundTripExact ==
    vcard.done => C14_Unescape(vcard.escaped) = vcard.text

\* C14, amended: escaping and then unescaping recovers the original text with
\* every CR LF replaced by LF, hence the original text exactly when it has no
\* CR LF; backslashes are escaped first, so no escape character inserted
\* later is escaped twice.
C14_RoundTripFoldsCRLF ==
    vcard.done =>
        /\ C14_Unescape(vcard.escaped) = C14_FoldCRLF(vcard.text)
        /\ C14_FoldCRLF(vcard.text) = vcard.text
             => C14_Unescape(vcard.escaped) = vcard.text

C14_Witness ==
    /\ vcard.done
    /\ vcard.text = <<"\\", ";", "\r", "\n">>
    /\ vcard.escaped = <<"\\", "\\", "\\", ";", "\\", "n">>
    /\ C14_Unescape(vcard.escaped) = <<"\\", ";", "\n">>

\* the ratios create_qr_with_logo applied so far, oldest first
Applied == [i \in 1..Len(tried) |-> tried[i][2]]

\* C15: every retry composes with a strictly smaller applied ratio than the
\* attempt before it, so no two attempts of a request compose with the same
\* applied ratio, for every payload kind, level and starting ratio.
C15_RetryShrinksApplied ==
    \A i \in 2..Len(tried) : FLt(Applied[i], Applied[i - 1])

\* the columns and rows next to an edge of the image, of the plate or of the
\* logo box: all three are rectangles, so these pixels decide for all
C16_ProbeXs ==
    {0, img.bg[1] - 1, img.bg[1], img.cx - 1, img.cx, img.cx + img.new_w - 1,
     img.cx + img.new_w, img.bg[3], img.bg[3] + 1, img.qr_w - 1}
        \cap (0..(img.qr_w - 1))

C16_ProbeYs ==
    {0, img.bg[2] - 1, img.bg[2], img.cy - 1, img.cy, img.cy + img.new_h - 1,
     img.cy + img.new_h, img.bg[4], img.bg[4] + 1, img.qr_h - 1}
        \cap (0..(img.qr_h - 1))

\* C16: the plate is drawn first and the logo second, and only pixels inside
\* the plate rectangle change: the logo box lies inside the plate rectangle,
\* the plate rectangle inside the image, every pixel outside the plate
\* rectangle still shows the QR modules and no pixel of the logo box is
\* covered by the plate (it can show the logo), for every QR size, logo size
\* and padding.
C16_OnlyPlateChanges ==
    img.status = "saved" =>
        /\ img.bg[1] <= img.cx /\ img.cx + img.new_w <= img.bg[3]
        /\ img.bg[2] <= img.cy /\ img.cy + img.new_h <= img.bg[4]
        /\ 0 <= img.bg[1] /\ img.bg[3] <= img.qr_w
        /\ 0 <= img.bg[2] /\ img.bg[4] <= img.qr_h
        /\ \A x \in C16_ProbeXs : \A y \in C16_ProbeYs :
             /\ ~InPlate(img, x, y) => Pixel(img, x, y) = {"qr"}
             /\ InLogo(img, x, y) => "logo" \in Pixel(img, x, y)

\* no padding: the plate is as tight as it gets around the logo, whose
\* corner pixel lies where the corner of the plate is cut off
C16_Witness ==
    /\ img.status = "saved"
    /\ args.pad = -3
    /\ img.r = DefaultRadius
    /\ img.bg = <<img.cx, img.cy, img.cx + img.new_w, img.cy + img.new_h>>
    /\ Pixel(img, img.cx, img.cy) = {"logo", "qr"}
    /\ Pixel(img, img.cx + img.new_w \div 2, img.cy + img.new_h \div 2) = {"logo", "plate"}
    /\ Pixel(img, img.cx + img.new_w, img.cy + img.new_h \div 2) = {"plate"}
    /\ Pixel(img, img.bg[3], img.bg[2]) = {"qr"}
    /\ Pixel(img, img.cx - 1, img.cy) = {"qr"}

\* C17: with --open the viewer is launched at most once per request.  With
\* validation it is launched only after the loop has reached Accept (in the
\* report after the loop): never during a compose attempt and never after
\* GiveUp.  Without validation it is launched once, by the single compose
\* attempt, after the file was saved.  A launch is the os.system call, which
\* the code makes on darwin, win and linux platforms.
C17_ViewerOnce ==
    /\ viewer.block <= 1
    /\ viewer.launched = (IF viewer.block = 1 /\ viewer.known THEN 1 ELSE 0)
    /\ ~args.open => viewer.block = 0
    /\ args.validate =>
         /\ viewer.block > 0 => pc = "Done" /\ ok /\ viewer.at = "report"
         /\ (pc = "Done" /\ ~ok) => viewer.block = 0
         /\ (pc = "Done" /\ ok /\ args.open) => viewer.block = 1
    /\ ~args.validate =>
         /\ viewer.block > 0 =>
              /\ viewer.at = "create"
              /\ Len(tried) = 1
              /\ outfile.written = 1 /\ outfile.image = img
         /\ (args.open /\ args.out # NoName /\ pc \in {"Accept", "Done"}) =>
              viewer.block = 1

\* accepted at the second attempt, then opened once
C17_Witness ==
    /\ pc = "Done" /\ ok
    /\ args.validate /\ args.auto_tune /\ args.open /\ args.out = N_WithLogo
    /\ Len(tried) = 2
    /\ viewer.launched = 1 /\ viewer.at = "report"

====
